---------------------------- MODULE Spec2Model ----------------------------
(***************************************************************************)
(* Model of the two ticker pipelines of the repository:                    *)
(*   edgar_scraper.py  (SEC EDGAR XBRL company facts)                      *)
(*   stock_scraper.py  (Yahoo Finance quarterly income statement)          *)
(*                                                                         *)
(* Python values are modelled as follows.                                  *)
(*   None            the empty tuple <<>>                                  *)
(*   a present value the one-element tuple <<v>>                           *)
(*   dict            a function whose DOMAIN is the set of keys            *)
(*   list            a sequence                                            *)
(*   str (dates)     a sequence of character codes, compared               *)
(*                   lexicographically as Python compares str              *)
(*   float           an exact rational [num, den], den > 0, in lowest      *)
(*                   terms                                                 *)
(*   a call          [ret |-> value] when it returns, [exc |-> name] when  *)
(*                   it raises                                             *)
(***************************************************************************)
EXTENDS Integers, Sequences, FiniteSets, TLC

VARIABLES
    script,         \* which of the two scripts this run is: "edgar" / "yahoo"
    pc,             \* position of main(): read, mapping, loop, done, exit
    tickers,        \* main.tickers
    cik_mapping,    \* main.cik_mapping (edgar)
    results,        \* main.results
    raw_rows,       \* main.raw_data_rows (edgar) / main.raw_data_list (yahoo)
    errors,         \* main.errors
    responses,      \* what the provider answered for each processed ticker
    events,         \* requests, sleeps and file writes, in order
    output,         \* the written workbook, None while not written
    console,        \* the printed summary, None while not printed
    exit_status,    \* None while running, Some(0), Some(1)
    traceback,      \* the uncaught exception that ended the run, if any
    x_wrap,         \* SpecExtract: shape of the facts document
    x_usgaap,       \* SpecExtract: the us-gaap dict being assembled
    x_call          \* SpecExtract: the extract_quarterly_value call made

vars == <<script, pc, tickers, cik_mapping, results, raw_rows, errors,
          responses, events, output, console, exit_status, traceback,
          x_wrap, x_usgaap, x_call>>

mainVars == <<script, pc, tickers, cik_mapping, results, raw_rows, errors,
              responses, events, output, console, exit_status, traceback>>

extractVars == <<x_wrap, x_usgaap, x_call>>

---------------------------------------------------------------------------
(* Bounds of the model *)

MaxTickers == 2

MaxEntries == 2

---------------------------------------------------------------------------
(* Python values *)

None == <<>>

Some(v) == <<v>>

Val(o) == o[1]

EmptyDict == <<>>

Get(d, k, default) == IF k \in DOMAIN d THEN d[k] ELSE default

Return(v) == [ret |-> v]

Raise(name) == [exc |-> name]

IsRaise(r) == "exc" \in DOMAIN r

JNull == <<"null">>

JObj(d) == <<"obj", d>>

Min(a, b) == IF a <= b THEN a ELSE b

Abs(n) == IF n < 0 THEN -n ELSE n

RECURSIVE GCD(_, _)
GCD(a, b) == IF b = 0 THEN a ELSE GCD(b, a % b)

(* str < str of Python: lexicographic on the character codes. *)
StrLess(a, b) ==
    \E k \in 1..(Min(Len(a), Len(b)) + 1) :
        /\ \A j \in 1..(k - 1) : a[j] = b[j]
        /\ \/ k > Len(a) /\ k <= Len(b)
           \/ k <= Len(a) /\ k <= Len(b) /\ a[k] < b[k]

StrLeq(a, b) == a = b \/ StrLess(a, b)

(* Exact rationals standing for Python floats. *)
Rat(n, d) ==
    LET g == GCD(Abs(n), Abs(d))
        s == IF d < 0 THEN -1 ELSE 1
    IN  [num |-> (s * n) \div g, den |-> (s * d) \div g]

RatOfInt(n) == [num |-> n, den |-> 1]

RatDiv(a, b) == Rat(a.num * b.den, a.den * b.num)

RatMul(a, b) == Rat(a.num * b.num, a.den * b.den)

RatIsZero(a) == a.num = 0

(* round(x, 2): to the nearest hundredth, ties to even. *)
Round2(a) ==
    LET n == a.num * 100
        q == n \div a.den
        r == n % a.den
        h == IF 2 * r > a.den THEN q + 1
             ELSE IF 2 * r < a.den THEN q
             ELSE IF q % 2 = 0 THEN q ELSE q + 1
    IN  Rat(h, 100)

---------------------------------------------------------------------------
(* edgar_scraper.py: constants *)

REVENUE_TAGS ==
    << "Revenues",
       "RevenueFromContractWithCustomerExcludingAssessedTax",
       "RevenueFromContractWithCustomerIncludingAssessedTax",
       "SalesRevenueNet",
       "SalesRevenueGoodsNet",
       "TotalRevenuesAndOtherIncome" >>

COGS_TAGS ==
    << "CostOfRevenue",
       "CostOfGoodsAndServicesSold",
       "CostOfGoodsSold",
       "CostOfGoodsAndServiceExcludingDepreciationDepletionAndAmortization" >>

DefaultForm == "10-Q"

---------------------------------------------------------------------------
(* edgar_scraper.py: extract_quarterly_value *)

(* key=lambda x: x.get('end', '') *)
EndKey(entry) == IF entry.end = None THEN <<>> ELSE Val(entry.end)

(* list.sort(key=..., reverse=True): stable, descending.  An element goes *)
(* after every element whose key is not smaller than its own.             *)
InsertDesc(sorted, e) ==
    LET smaller == {i \in 1..Len(sorted) : StrLess(EndKey(sorted[i]), EndKey(e))}
        at == IF smaller = {} THEN Len(sorted) + 1
              ELSE CHOOSE i \in smaller : \A j \in smaller : i <= j
    IN  SubSeq(sorted, 1, at - 1) \o <<e>> \o SubSeq(sorted, at, Len(sorted))

RECURSIVE SortByEndDesc(_)
SortByEndDesc(s) ==
    IF s = <<>> THEN <<>>
    ELSE InsertDesc(SortByEndDesc(SubSeq(s, 1, Len(s) - 1)), s[Len(s)])

IsFramed(entry, form) == entry.form = form /\ entry.frame # None

HasForm(entry, form) == entry.form = form

QuarterlyEntriesAnyFrame(usd_data, form) ==
    SelectSeq(usd_data, LAMBDA entry : HasForm(entry, form))

(* lines 116-126: the framed entries of the form, or, when there are none, *)
(* every entry of the form.                                                *)
QuarterlyEntries(usd_data, form) ==
    LET framed == SelectSeq(usd_data, LAMBDA entry : IsFramed(entry, form))
    IN  IF framed # <<>> THEN framed
        ELSE SelectSeq(usd_data, LAMBDA entry : HasForm(entry, form))

(* lines 106-132 for one tag: the sorted quarterly entries, <<>> when the  *)
(* loop continues with the next tag.                                       *)
TagEntries(us_gaap, tag, form) ==
    IF tag \notin DOMAIN us_gaap THEN <<>>
    ELSE LET tag_data == us_gaap[tag]
             units    == Get(tag_data, "units", EmptyDict)
             usd_data == Get(units, "USD", <<>>)
         IN  IF usd_data = <<>> THEN <<>>
             ELSE SortByEndDesc(QuarterlyEntries(usd_data, form))

RECURSIVE LastTagLoop(_, _, _)
LastTagLoop(us_gaap, tags, form) ==
    IF tags = <<>> THEN <<None, None, None>>
    ELSE LET n == Len(tags)
             quarterly_entries == TagEntries(us_gaap, tags[n], form)
         IN  IF quarterly_entries = <<>>
             THEN LastTagLoop(us_gaap, SubSeq(tags, 1, n - 1), form)
             ELSE LET latest == quarterly_entries[1]
                  IN  <<latest.val, latest.end, Some(latest)>>

(* lines 102-139: the loop over the tags. *)
RECURSIVE TagLoop(_, _, _)
TagLoop(us_gaap, tags, form) ==
    IF tags = <<>> THEN <<None, None, None>>
    ELSE LET quarterly_entries == TagEntries(us_gaap, tags[1], form)
         IN  IF quarterly_entries = <<>>
             THEN TagLoop(us_gaap, Tail(tags), form)
             ELSE LET latest == quarterly_entries[1]
                  IN  <<latest.val, latest.end, Some(latest)>>

(* line 100: facts.get('facts', {}).get('us-gaap', {}); a JSON null under *)
(* 'facts' has no .get and raises AttributeError.                          *)
extract_quarterly_value(facts, tags, form) ==
    LET inner == Get(facts, "facts", JObj(EmptyDict))
    IN  IF inner = JNull THEN Raise("AttributeError")
        ELSE Return(TagLoop(Get(inner[2], "us-gaap", EmptyDict), tags, form))

---------------------------------------------------------------------------
(* edgar_scraper.py: get_company_facts, get_edgar_financials *)

(* if x: / if not x: on an optional value: None, '', 0 and 0.0 are falsy. *)
TruthyStr(o) == o # None /\ Val(o) # ""

TruthyFloat(o) == o # None /\ ~RatIsZero(Val(o))

TruthyDict(o) == o # None /\ DOMAIN Val(o) # {}

(* lines 84-91: a 404 and every requests.RequestException give None. *)
get_company_facts(resp) ==
    IF resp.kind = "ok" THEN Some(resp.json) ELSE None

edgar_margin_truthy(revenue, cogs) ==
    IF revenue # None /\ cogs # None /\ Val(revenue) # 0 /\ Val(cogs) # 0
    THEN Some(RatMul(RatDiv(RatOfInt(Val(revenue) - Val(cogs)),
                            RatOfInt(Val(revenue))), RatOfInt(100)))
    ELSE None

(* lines 187-190 *)
edgar_gross_margin(revenue, cogs) ==
    IF revenue # None /\ cogs # None /\ Val(revenue) # 0
    THEN Some(RatMul(RatDiv(RatOfInt(Val(revenue) - Val(cogs)),
                            RatOfInt(Val(revenue))), RatOfInt(100)))
    ELSE None

edgar_missing_note_revenue_only(revenue, cogs) ==
    IF revenue = None /\ cogs = None
    THEN Some("No revenue or COGS data found in filings")
    ELSE IF revenue = None THEN Some("Revenue not found")
    ELSE None

(* lines 192-198 *)
edgar_missing_note(revenue, cogs) ==
    IF revenue = None /\ cogs = None
    THEN Some("No revenue or COGS data found in filings")
    ELSE IF revenue = None THEN Some("Revenue not found")
    ELSE IF cogs = None
    THEN Some("Cost of goods sold not found (gross margin unavailable)")
    ELSE None

(* lines 148-159 *)
EdgarBlank(ticker) ==
    [ ticker |-> ticker, cik |-> None, revenue |-> None,
      revenue_date |-> None, cost_of_goods_sold |-> None,
      cogs_date |-> None, gross_margin |-> None, error |-> None,
      raw_revenue |-> None, raw_cogs |-> None ]

lookup_cik_default_ticker(mapping, ticker) ==
    IF ticker \in DOMAIN mapping THEN Some(mapping[ticker]) ELSE Some(ticker)

(* line 162: cik_mapping.get(ticker) *)
lookup_cik(mapping, ticker) ==
    IF ticker \in DOMAIN mapping THEN Some(mapping[ticker]) ELSE None

(* lines 142-200.  out: the returned dict, or the exception that leaves    *)
(* the function; requests: the company-facts requests it issued.           *)
get_edgar_financials(ticker, mapping, resp) ==
    LET result == EdgarBlank(ticker)
        cik    == lookup_cik(mapping, ticker)
    IN  IF ~TruthyStr(cik)
        THEN [ out |-> Return([result EXCEPT !.error =
                   Some("Ticker not found in SEC database (may be ETF or foreign)")]),
               requests |-> <<>> ]
        ELSE
        LET facts == get_company_facts(resp)
        IN  IF ~TruthyDict(facts)
            THEN [ out |-> Return([result EXCEPT !.cik = cik,
                                       !.error = Some("No EDGAR data available")]),
                   requests |-> <<cik>> ]
            ELSE
            LET rev == extract_quarterly_value(Val(facts), REVENUE_TAGS, DefaultForm)
                cgs == extract_quarterly_value(Val(facts), COGS_TAGS, DefaultForm)
            IN  IF IsRaise(rev) THEN [out |-> rev, requests |-> <<cik>>]
                ELSE IF IsRaise(cgs) THEN [out |-> cgs, requests |-> <<cik>>]
                ELSE
                LET revenue == rev.ret[1]
                    cogs    == cgs.ret[1]
                IN  [ out |-> Return(
                        [ ticker |-> ticker,
                          cik |-> cik,
                          revenue |-> revenue,
                          revenue_date |-> rev.ret[2],
                          cost_of_goods_sold |-> cogs,
                          cogs_date |-> cgs.ret[2],
                          gross_margin |-> edgar_gross_margin(revenue, cogs),
                          error |-> edgar_missing_note(revenue, cogs),
                          raw_revenue |-> rev.ret[3],
                          raw_cogs |-> cgs.ret[3] ]),
                      requests |-> <<cik>> ]

(* lines 266-279: the raw-sheet row of one result. *)
EdgarRawRow(ticker, data) ==
    [ ticker |-> ticker, cik |-> data.cik,
      revenue_raw |-> IF TruthyDict(data.raw_revenue) THEN data.raw_revenue ELSE None,
      cogs_raw |-> IF TruthyDict(data.raw_cogs) THEN data.raw_cogs ELSE None ]

(* line 296: round(r['gross_margin'], 2) if r['gross_margin'] else None *)
edgar_margin_cell(gross_margin) ==
    IF TruthyFloat(gross_margin) THEN Some(Round2(Val(gross_margin))) ELSE None

(* lines 289-298 *)
EdgarSummaryRow(r) ==
    [ Ticker |-> r.ticker, CIK |-> r.cik,
      QuarterlyRevenue |-> r.revenue, RevenueQuarterEnd |-> r.revenue_date,
      CostOfGoodsSold |-> r.cost_of_goods_sold, COGSQuarterEnd |-> r.cogs_date,
      GrossMarginPct |-> edgar_margin_cell(r.gross_margin),
      Notes |-> IF TruthyStr(r.error) THEN Val(r.error) ELSE "" ]

(* line 313 *)
EdgarSuccess(r) == r.revenue # None

---------------------------------------------------------------------------
(* stock_scraper.py: get_quarterly_financials *)

revenue_keys == << "Total Revenue", "Revenue", "Operating Revenue" >>

cogs_keys == << "Cost Of Revenue", "Cost of Revenue", "Cost Of Goods Sold", "COGS" >>

(* lines 82-85 and 90-93: the value of the first key that is a row label. *)
RECURSIVE FirstKey(_, _)
FirstKey(most_recent, keys) ==
    IF keys = <<>> THEN None
    ELSE IF keys[1] \in DOMAIN most_recent THEN Some(most_recent[keys[1]])
    ELSE FirstKey(most_recent, Tail(keys))

(* quarter_date.strftime('%Y-%m-%d') *)
Strftime(d) ==
    << d.y \div 1000, (d.y \div 100) % 10, (d.y \div 10) % 10, d.y % 10, "-",
       d.m \div 10, d.m % 10, "-", d.d \div 10, d.d % 10 >>

(* lines 99-102 *)
yahoo_gross_margin(revenue, cogs) ==
    IF revenue # None /\ cogs # None /\ Val(revenue) # 0
    THEN Some(RatMul(RatDiv(RatOfInt(Val(revenue) - Val(cogs)),
                            RatOfInt(Val(revenue))), RatOfInt(100)))
    ELSE None

(* lines 50-57 *)
YahooBlank(ticker) ==
    [ ticker |-> ticker, revenue |-> None, cost_of_goods_sold |-> None,
      gross_margin |-> None, quarter_end_date |-> None, error |-> None ]

(* lines 42-107: <<result, raw_data>>.  Every exception raised inside the  *)
(* try block is caught and its str() becomes the note.                     *)
get_quarterly_financials(ticker, resp) ==
    LET result == YahooBlank(ticker)
        raw    == [ticker |-> ticker, quarter_end_date |-> None, rows |-> EmptyDict]
    IN  IF resp.kind = "raises"
        THEN << [result EXCEPT !.error = Some(resp.msg)], raw >>
        ELSE IF resp.kind = "empty"
        THEN << [result EXCEPT !.error = Some("No income statement data available")],
                raw >>
        ELSE
        LET most_recent == resp.stmt.rows
            quarter     == Some(Strftime(resp.stmt.date))
            revenue     == FirstKey(most_recent, revenue_keys)
            cogs        == FirstKey(most_recent, cogs_keys)
        IN  << [ ticker |-> ticker,
                 revenue |-> revenue,
                 cost_of_goods_sold |-> cogs,
                 gross_margin |-> yahoo_gross_margin(revenue, cogs),
                 quarter_end_date |-> quarter,
                 error |-> None ],
               [ticker |-> ticker, quarter_end_date |-> quarter, rows |-> most_recent] >>

(* lines 161-168: a None of the frame is an empty cell; .round(2);         *)
(* .fillna('')                                                            *)
YahooSummaryRow(r) ==
    [ Ticker |-> r.ticker,
      QuarterlyRevenue |-> r.revenue,
      CostOfGoodsSold |-> r.cost_of_goods_sold,
      GrossMarginPct |-> IF r.gross_margin = None THEN None
                         ELSE Some(Round2(Val(r.gross_margin))),
      QuarterEndDate |-> r.quarter_end_date,
      Notes |-> IF r.error = None THEN "" ELSE Val(r.error) ]

(* line 183 *)
YahooSuccess(r) == r.error = None

---------------------------------------------------------------------------
(* Inputs: what the file system and the providers can answer *)

Tickers == {"AAPL", "NOTAREALTICKER"}

(* read_tickers' results: the normalized lists of at most MaxTickers. *)
TickerLists == UNION {[1..n -> Tickers] : n \in 0..MaxTickers}

(* get_cik_mapping's results. *)
CikMappings == { EmptyDict, [t \in {"AAPL"} |-> "0000320193"] }

Amounts == {None, Some(0), Some(3), Some(1000)}

Costs == {None, Some(0), Some(1), Some(600), Some(1000)}

UsdOf(amount) ==
    [units |-> [USD |-> << [form |-> "10-Q", frame |-> Some("CY2024Q1"),
                            end |-> Some(<<9>>), val |-> amount] >>]]

(* A company-facts document reporting the two amounts (None: not reported). *)
MkFacts(rev, cogs) ==
    LET present == (IF rev = None THEN {} ELSE {"SalesRevenueNet"})
                   \cup (IF cogs = None THEN {} ELSE {"CostOfRevenue"})
    IN  [ facts |-> JObj([ g \in {"us-gaap"} |->
            [ t \in present |-> IF t = "SalesRevenueNet" THEN UsdOf(rev)
                                ELSE UsdOf(cogs) ] ]) ]

EdgarResponses ==
    { [kind |-> "404", json |-> EmptyDict],
      [kind |-> "error", json |-> EmptyDict],
      [kind |-> "ok", json |-> EmptyDict],
      [kind |-> "ok", json |-> [facts |-> JNull]] }
    \cup { [kind |-> "ok", json |-> MkFacts(r, c)] : r \in Amounts, c \in Costs }

(* A quarterly income statement: the most recent column and its date. *)
MkStmt(rev, cogs) ==
    LET labels == {"Net Income"}
                  \cup (IF rev = None THEN {} ELSE {"Operating Revenue"})
                  \cup (IF cogs = None THEN {} ELSE {"Cost Of Revenue"})
    IN  [ date |-> [y |-> 2024, m |-> 3, d |-> 31],
          rows |-> [ l \in labels |->
                       IF l = "Operating Revenue" THEN Val(rev)
                       ELSE IF l = "Cost Of Revenue" THEN Val(cogs) ELSE 7 ] ]

NoStmt == [date |-> [y |-> 0, m |-> 0, d |-> 0], rows |-> EmptyDict]

YahooResponses ==
    { [kind |-> "raises", msg |-> "", stmt |-> NoStmt],
      [kind |-> "raises", msg |-> "HTTP Error 404", stmt |-> NoStmt],
      [kind |-> "empty", msg |-> "", stmt |-> NoStmt] }
    \cup { [kind |-> "ok", msg |-> "", stmt |-> MkStmt(r, c)] :
             r \in Amounts, c \in Costs }

Event(kind, arg) == [kind |-> kind, arg |-> arg]

RECURSIVE RequestEvents(_)
RequestEvents(ciks) ==
    IF ciks = <<>> THEN <<>>
    ELSE <<Event("facts_request", ciks[1])>> \o RequestEvents(Tail(ciks))

---------------------------------------------------------------------------
(* main() of both scripts *)

Init ==
    /\ script \in {"edgar", "yahoo"}
    /\ pc = "read"
    /\ tickers = <<>>
    /\ cik_mapping = EmptyDict
    /\ results = <<>>
    /\ raw_rows = <<>>
    /\ errors = <<>>
    /\ responses = <<>>
    /\ events = <<>>
    /\ output = None
    /\ console = None
    /\ exit_status = None
    /\ traceback = None
    /\ x_wrap = "idle"
    /\ x_usgaap = EmptyDict
    /\ x_call = None

(* edgar 239-243, yahoo 134-138: read_tickers raised FileNotFoundError. *)
ReadTickersFails ==
    /\ pc = "read"
    /\ pc' = "exit"
    /\ exit_status' = Some(1)
    /\ events' = Append(events, Event("exit", Some("1")))
    /\ UNCHANGED <<script, tickers, cik_mapping, results, raw_rows, errors,
                   responses, output, console, traceback>>
    /\ UNCHANGED extractVars

(* edgar 240, yahoo 135 *)
ReadTickers ==
    /\ pc = "read"
    /\ \E list \in TickerLists : tickers' = list
    /\ pc' = IF script = "edgar" THEN "mapping" ELSE "loop"
    /\ UNCHANGED <<script, cik_mapping, results, raw_rows, errors, responses,
                   events, output, console, exit_status, traceback>>
    /\ UNCHANGED extractVars

(* edgar 249-254: get_cik_mapping raised requests.RequestException. *)
FetchMappingFails ==
    /\ pc = "mapping"
    /\ pc' = "exit"
    /\ exit_status' = Some(1)
    /\ events' = events \o <<Event("mapping_request", None), Event("exit", Some("1"))>>
    /\ UNCHANGED <<script, tickers, cik_mapping, results, raw_rows, errors,
                   responses, output, console, traceback>>
    /\ UNCHANGED extractVars

(* edgar 250 *)
FetchMapping ==
    /\ pc = "mapping"
    /\ \E m \in CikMappings : cik_mapping' = m
    /\ pc' = "loop"
    /\ events' = Append(events, Event("mapping_request", None))
    /\ UNCHANGED <<script, tickers, results, raw_rows, errors, responses,
                   output, console, exit_status, traceback>>
    /\ UNCHANGED extractVars

EdgarBodyRawOnlyOnSuccess(ticker, data) ==
    [ results  |-> Append(results, data),
      raw_rows |-> IF TruthyStr(data.error) THEN raw_rows
                   ELSE Append(raw_rows, EdgarRawRow(ticker, data)),
      errors   |-> IF TruthyStr(data.error)
                   THEN Append(errors, <<ticker, Val(data.error)>>) ELSE errors,
      sleeps   |-> <<Event("sleep", None)>> ]

(* edgar 263-286: the rest of the loop body once the per-ticker call has   *)
(* returned data.                                                          *)
EdgarBody(ticker, data) ==
    [ results  |-> Append(results, data),
      raw_rows |-> Append(raw_rows, EdgarRawRow(ticker, data)),
      errors   |-> IF TruthyStr(data.error)
                   THEN Append(errors, <<ticker, Val(data.error)>>) ELSE errors,
      sleeps   |-> <<Event("sleep", None)>> ]

(* edgar 261-286: one iteration of the loop.  An exception leaving         *)
(* get_edgar_financials leaves main: traceback, exit status 1.             *)
EdgarIteration ==
    /\ pc = "loop" /\ script = "edgar"
    /\ Len(responses) < Len(tickers)
    /\ \E resp \in EdgarResponses :
         LET ticker == tickers[Len(responses) + 1]
             call   == get_edgar_financials(ticker, cik_mapping, resp)
             asked  == IF call.requests = <<>> THEN None ELSE Some(resp)
         IN  IF IsRaise(call.out)
             THEN /\ pc' = "exit"
                  /\ exit_status' = Some(1)
                  /\ traceback' = Some(call.out.exc)
                  /\ events' = events \o RequestEvents(call.requests)
                                      \o <<Event("exit", Some("1"))>>
                  /\ responses' = Append(responses, asked)
                  /\ UNCHANGED <<results, raw_rows, errors>>
             ELSE LET body == EdgarBody(ticker, call.out.ret)
                  IN  /\ results' = body.results
                      /\ raw_rows' = body.raw_rows
                      /\ errors' = body.errors
                      /\ events' = events \o RequestEvents(call.requests) \o body.sleeps
                      /\ responses' = Append(responses, asked)
                      /\ UNCHANGED <<pc, exit_status, traceback>>
    /\ UNCHANGED <<script, tickers, cik_mapping, output, console>>
    /\ UNCHANGED extractVars

(* yahoo 147-156: one iteration of the loop. *)
YahooIteration ==
    /\ pc = "loop" /\ script = "yahoo"
    /\ Len(responses) < Len(tickers)
    /\ \E resp \in YahooResponses :
         LET ticker == tickers[Len(responses) + 1]
             call   == get_quarterly_financials(ticker, resp)
             data   == call[1]
         IN  /\ results' = Append(results, data)
             /\ raw_rows' = Append(raw_rows, call[2])
             /\ errors' = IF TruthyStr(data.error)
                          THEN Append(errors, <<ticker, Val(data.error)>>) ELSE errors
             /\ events' = events \o <<Event("yahoo_request", Some(ticker)),
                                      Event("sleep", None)>>
             /\ responses' = Append(responses, Some(resp))
    /\ UNCHANGED <<script, pc, tickers, cik_mapping, output, console,
                   exit_status, traceback>>
    /\ UNCHANGED extractVars

(* edgar 288-321, yahoo 158-191: the frames, the workbook, the summary. *)
WriteReport ==
    /\ pc = "loop"
    /\ Len(responses) = Len(tickers)
    /\ output' = Some([ Summary |-> [i \in 1..Len(results) |->
                                       IF script = "edgar"
                                       THEN EdgarSummaryRow(results[i])
                                       ELSE YahooSummaryRow(results[i])],
                        RawData |-> raw_rows ])
    /\ console' = Some([ success_count |-> Cardinality({i \in 1..Len(results) :
                                               IF script = "edgar"
                                               THEN EdgarSuccess(results[i])
                                               ELSE YahooSuccess(results[i])}),
                         total |-> Len(tickers),
                         errors |-> errors ])
    /\ events' = events \o <<Event("write", None), Event("exit", Some("0"))>>
    /\ pc' = "done"
    /\ exit_status' = Some(0)
    /\ UNCHANGED <<script, tickers, cik_mapping, results, raw_rows, errors,
                   responses, traceback>>
    /\ UNCHANGED extractVars

Next ==
    \/ ReadTickersFails
    \/ ReadTickers
    \/ FetchMappingFails
    \/ FetchMapping
    \/ EdgarIteration
    \/ YahooIteration
    \/ WriteReport

Spec == Init /\ [][Next]_vars

---------------------------------------------------------------------------
(* extract_quarterly_value on assembled company-facts documents *)

XTags == {"Revenues", "SalesRevenueNet"}

XTagLists ==
    { <<>> } \cup { <<t>> : t \in XTags }
    \cup { p \in XTags \X XTags : p[1] # p[2] }

XForms == {"10-Q", "10-K"}

XFrames == {None, Some("CY2024Q1")}

XEnds == {None, Some(<<1, 0>>), Some(<<9>>)}

(* tag_data without 'units', units without 'USD', and an empty USD list. *)
XEmptyTagData == { EmptyDict, [units |-> EmptyDict], [units |-> [USD |-> <<>>]] }

XUsd(t) == Get(Get(x_usgaap[t], "units", EmptyDict), "USD", <<>>)

XHasUsd(t) == "USD" \in DOMAIN Get(x_usgaap[t], "units", EmptyDict)

RECURSIVE XSum(_, _)
XSum(f, S) ==
    IF S = {} THEN 0
    ELSE LET t == CHOOSE u \in S : TRUE IN f[t] + XSum(f, S \ {t})

XTotalEntries ==
    XSum([t \in DOMAIN x_usgaap |-> Len(XUsd(t))], DOMAIN x_usgaap)

(* Every entry carries its own val, so that the returned entry tells which *)
(* tag and which position it was taken from.                               *)
XNextVal(t) == (IF t = "Revenues" THEN 10 ELSE 20) + Len(XUsd(t)) + 1

XFacts ==
    CASE x_wrap = "full"      -> [facts |-> JObj([g \in {"us-gaap"} |-> x_usgaap])]
      [] x_wrap = "no_usgaap" -> [facts |-> JObj(EmptyDict)]
      [] x_wrap = "no_facts"  -> [cik |-> 320193]
      [] x_wrap = "null"      -> [facts |-> JNull]

XInit ==
    /\ script = "edgar"
    /\ pc = "extract"
    /\ tickers = <<>>
    /\ cik_mapping = EmptyDict
    /\ results = <<>>
    /\ raw_rows = <<>>
    /\ errors = <<>>
    /\ responses = <<>>
    /\ events = <<>>
    /\ output = None
    /\ console = None
    /\ exit_status = None
    /\ traceback = None
    /\ x_wrap \in {"full", "no_usgaap", "no_facts", "null"}
    /\ x_usgaap = EmptyDict
    /\ x_call = None

XAddTag ==
    /\ x_wrap = "full" /\ x_call = None
    /\ \E t \in XTags \ DOMAIN x_usgaap : \E td \in XEmptyTagData :
         x_usgaap' = [u \in DOMAIN x_usgaap \cup {t} |->
                        IF u = t THEN td ELSE x_usgaap[u]]
    /\ UNCHANGED <<x_wrap, x_call>>
    /\ UNCHANGED mainVars

XAddEntry ==
    /\ x_wrap = "full" /\ x_call = None
    /\ XTotalEntries < MaxEntries
    /\ \E t \in DOMAIN x_usgaap : \E f \in XForms, fr \in XFrames, e \in XEnds :
         /\ XHasUsd(t)
         /\ x_usgaap' = [x_usgaap EXCEPT ![t] =
              [units |-> [USD |-> Append(XUsd(t),
                  [form |-> f, frame |-> fr, end |-> e, val |-> Some(XNextVal(t))])]]]
    /\ UNCHANGED <<x_wrap, x_call>>
    /\ UNCHANGED mainVars

XExtract ==
    /\ x_call = None
    /\ \E tags \in XTagLists :
         x_call' = Some([ tags |-> tags,
                          out |-> extract_quarterly_value(XFacts, tags, DefaultForm) ])
    /\ UNCHANGED <<x_wrap, x_usgaap>>
    /\ UNCHANGED mainVars

XNext ==
    \/ XAddTag
    \/ XAddEntry
    \/ XExtract

SpecExtract == XInit /\ [][XNext]_vars

---------------------------------------------------------------------------
(* Vocabulary of the properties *)

Range(seq) == {seq[i] : i \in 1..Len(seq)}

XReturned == x_call # None /\ ~IsRaise(Val(x_call).out)

XArgTags == Val(x_call).tags

XValue == Val(x_call).out.ret[1]

XDate == Val(x_call).out.ret[2]

XRaw == Val(x_call).out.ret[3]

XEntriesOf(t) == IF t \in DOMAIN x_usgaap THEN Range(XUsd(t)) ELSE {}

XQuarterlyOf(t) == {e \in XEntriesOf(t) : e.form = "10-Q"}

XFramedOf(t) == {e \in XQuarterlyOf(t) : e.frame # None}

(* Positions of the tag list whose tag is a key of us-gaap. *)
XPresentAt == {i \in 1..Len(XArgTags) : XArgTags[i] \in DOMAIN x_usgaap}

(* Positions of the tag list whose tag has a USD entry of form 10-Q. *)
XQuarterlyAt == {i \in 1..Len(XArgTags) : XQuarterlyOf(XArgTags[i]) # {}}

First(S) == CHOOSE i \in S : \A j \in S : i <= j

Processed == 1..Len(results)

SleepCount == Cardinality({k \in 1..Len(events) : events[k].kind = "sleep"})

WriteAt == {k \in 1..Len(events) : events[k].kind = "write"}

RequestAt ==
    {k \in 1..Len(events) : events[k].kind \in {"facts_request", "yahoo_request"}}

FactsRequestCount ==
    Cardinality({k \in 1..Len(events) : events[k].kind = "facts_request"})

UnknownNote == "Ticker not found in SEC database (may be ETF or foreign)"

EdgarNotes ==
    { None,
      Some(UnknownNote),
      Some("No EDGAR data available"),
      Some("No revenue or COGS data found in filings"),
      Some("Revenue not found"),
      Some("Cost of goods sold not found (gross margin unavailable)") }

Success(r) == IF script = "edgar" THEN EdgarSuccess(r) ELSE YahooSuccess(r)

(* Extracting from the i-th ticker's company facts raised. *)
ExtractionRaised(i) ==
    /\ script = "edgar"
    /\ responses[i] # None
    /\ Val(responses[i]).kind = "ok"
    /\ Val(responses[i]).json # EmptyDict
    /\ \/ IsRaise(extract_quarterly_value(Val(responses[i]).json, REVENUE_TAGS, DefaultForm))
       \/ IsRaise(extract_quarterly_value(Val(responses[i]).json, COGS_TAGS, DefaultForm))

(* The i-th ticker's fetch or extraction failed: a transport error, or an  *)
(* exception raised while its data was fetched or extracted.               *)
TickerFailed(i) ==
    \/ ExtractionRaised(i)
    \/ /\ responses[i] # None
       /\ Val(responses[i]).kind = IF script = "edgar" THEN "error" ELSE "raises"

(* The tickers whose outcome is a success, an unknown issuer, no data or a *)
(* fetch failure.                                                          *)
Handled == {i \in 1..Len(responses) : ~ExtractionRaised(i)}

---------------------------------------------------------------------------
(* C1 as stated: the result of extract_quarterly_value comes from the      *)
(* first tag of the list that is a key of us-gaap; a later tag is never    *)
(* consulted, so the result is that tag's entry or absent.                 *)
C1_FirstPresentTagWins ==
    (XReturned /\ XPresentAt # {}) =>
        LET a == XArgTags[First(XPresentAt)]
        IN  XRaw = None \/ Val(XRaw) \in XEntriesOf(a)

(* C1 amended: the result of extract_quarterly_value comes from the first  *)
(* tag of the list that is a key of us-gaap and has at least one USD entry *)
(* of form 10-Q: value, date and raw entry are that tag's, whatever the    *)
(* entries of the tags after it; tags before it that are present without   *)
(* such an entry are skipped; with no such tag all three are absent.       *)
C1_FirstTagWithQuarterlyEntryWins ==
    XReturned =>
        IF XQuarterlyAt = {}
        THEN XValue = None /\ XDate = None /\ XRaw = None
        ELSE LET a == XArgTags[First(XQuarterlyAt)]
             IN  /\ XRaw # None
                 /\ Val(XRaw) \in XQuarterlyOf(a)
                 /\ XValue = Val(XRaw).val
                 /\ XDate = Val(XRaw).end

(* Both tags have 10-Q entries, the second one with a later end, and the   *)
(* first tag's entry is returned.                                          *)
C1_Witness ==
    /\ XReturned
    /\ Len(XArgTags) = 2
    /\ XQuarterlyOf(XArgTags[1]) # {}
    /\ \E b \in XQuarterlyOf(XArgTags[2]) :
         \A a \in XQuarterlyOf(XArgTags[1]) : StrLess(EndKey(a), EndKey(b))
    /\ XRaw # None
    /\ Val(XRaw) \in XQuarterlyOf(XArgTags[1])

(* C2: the returned entry is a 10-Q entry of one tag of the list; when     *)
(* that tag has a framed 10-Q entry the returned entry is framed and no    *)
(* framed 10-Q entry of the tag has a greater end; otherwise no 10-Q entry *)
(* of the tag has a greater end.                                           *)
C2_FramedThenLatestEnd ==
    (XReturned /\ XRaw # None) =>
        \E i \in 1..Len(XArgTags) :
            LET t == XArgTags[i]
                e == Val(XRaw)
            IN  /\ e \in XEntriesOf(t)
                /\ e.form = "10-Q"
                /\ IF XFramedOf(t) # {}
                   THEN /\ e \in XFramedOf(t)
                        /\ \A f \in XFramedOf(t) : StrLeq(EndKey(f), EndKey(e))
                   ELSE \A f \in XQuarterlyOf(t) : StrLeq(EndKey(f), EndKey(e))

(* A framed entry is returned although an unframed 10-Q entry of the same  *)
(* tag has a later end.                                                    *)
C2_Witness ==
    /\ XReturned /\ XRaw # None
    /\ Val(XRaw).frame # None
    /\ \E t \in DOMAIN x_usgaap :
         /\ Val(XRaw) \in XEntriesOf(t)
         /\ \E u \in XQuarterlyOf(t) :
              u.frame = None /\ StrLess(EndKey(Val(XRaw)), EndKey(u))

(* C3: in both pipelines a result's gross margin is present exactly when   *)
(* revenue and cost are present and revenue is not 0, and then it is       *)
(* (revenue - cost) / revenue * 100 exactly, unrounded.                    *)
C3_MarginIffAndValue ==
    \A i \in Processed :
        LET r    == results[i]
            rev  == r.revenue
            cogs == r.cost_of_goods_sold
            m    == r.gross_margin
        IN  /\ m # None <=> (rev # None /\ cogs # None /\ Val(rev) # 0)
            /\ m # None =>
                 /\ Val(m).den > 0
                 /\ Val(m).num * Val(rev) = (Val(rev) - Val(cogs)) * 100 * Val(m).den
            /\ (rev = Some(1000) /\ cogs = Some(600)) => m = Some(RatOfInt(40))
            /\ (rev = Some(1000) /\ cogs = Some(0)) => m = Some(RatOfInt(100))

(* One run holds a margin of 40 for 1000 / 600 and the unrounded 200/3 for *)
(* 3 / 1.                                                                  *)
C3_Witness ==
    /\ \E i \in Processed :
         /\ results[i].revenue = Some(1000)
         /\ results[i].cost_of_goods_sold = Some(600)
         /\ results[i].gross_margin = Some(RatOfInt(40))
    /\ \E i \in Processed :
         /\ results[i].revenue = Some(3)
         /\ results[i].cost_of_goods_sold = Some(1)
         /\ results[i].gross_margin = Some([num |-> 200, den |-> 3])

(* C4: every EDGAR result carries one note of the closed set, chosen with  *)
(* the precedence issuer unknown, no data, missing metrics; the note is    *)
(* absent exactly when the CIK was found, facts were fetched and both      *)
(* metrics are present; a result with a margin carries no note.            *)
C4_EdgarNotePolicy ==
    script = "edgar" =>
        \A i \in Processed :
            LET r       == results[i]
                found   == tickers[i] \in DOMAIN cik_mapping
                fetched == /\ responses[i] # None
                           /\ Val(responses[i]).kind = "ok"
                           /\ Val(responses[i]).json # EmptyDict
                rev     == r.revenue
                cogs    == r.cost_of_goods_sold
            IN  /\ r.error \in EdgarNotes
                /\ r.error =
                     IF ~found THEN Some(UnknownNote)
                     ELSE IF ~fetched THEN Some("No EDGAR data available")
                     ELSE IF rev = None /\ cogs = None
                     THEN Some("No revenue or COGS data found in filings")
                     ELSE IF rev = None THEN Some("Revenue not found")
                     ELSE IF cogs = None
                     THEN Some("Cost of goods sold not found (gross margin unavailable)")
                     ELSE None
                /\ r.error = None <=> (found /\ fetched /\ rev # None /\ cogs # None)
                /\ r.gross_margin # None => r.error = None

(* One run holds a result with a margin and no note and a result whose     *)
(* revenue is present and whose cost is missing.                           *)
C4_Witness ==
    /\ script = "edgar"
    /\ \E i \in Processed :
         results[i].gross_margin # None /\ results[i].error = None
    /\ \E i \in Processed :
         /\ results[i].revenue # None
         /\ results[i].error =
              Some("Cost of goods sold not found (gross margin unavailable)")

(* C5 as stated: a Yahoo ticker whose non-empty income statement lacks     *)
(* every revenue label, or every cost label, gets a non-empty note; a      *)
(* result without a note has both metrics, and only such results are       *)
(* counted as successfully processed.                                      *)
C5_YahooMissingMetricNoted ==
    script = "yahoo" =>
        /\ \A i \in Processed :
             LET r == results[i]
             IN  /\ ( /\ Val(responses[i]).kind = "ok"
                      /\ \/ r.revenue = None
                         \/ r.cost_of_goods_sold = None ) => TruthyStr(r.error)
                 /\ r.error = None =>
                      (r.revenue # None /\ r.cost_of_goods_sold # None)
        /\ console # None =>
             Val(console).success_count =
                 Cardinality({i \in Processed :
                     /\ results[i].error = None
                     /\ results[i].revenue # None
                     /\ results[i].cost_of_goods_sold # None})

(* C6: an EDGAR ticker that is no key of the CIK table yields a result     *)
(* with every field absent and the 'not found' note, costs no              *)
(* company-facts request, does not stop the run, and has its one row in    *)
(* both sheets.                                                            *)
C6_UnknownTicker ==
    script = "edgar" =>
        /\ \A i \in Processed :
             tickers[i] \notin DOMAIN cik_mapping =>
                 /\ results[i] = [EdgarBlank(tickers[i]) EXCEPT !.error = Some(UnknownNote)]
                 /\ responses[i] = None
        /\ FactsRequestCount =
             Cardinality({i \in 1..Len(responses) : tickers[i] \in DOMAIN cik_mapping})
        /\ (exit_status = Some(1) /\ responses # <<>>) =>
               tickers[Len(responses)] \in DOMAIN cik_mapping
        /\ pc = "done" =>
             /\ Len(Val(output).Summary) = Len(tickers)
             /\ Len(Val(output).RawData) = Len(tickers)
             /\ \A i \in 1..Len(tickers) :
                  /\ Val(output).Summary[i].Ticker = tickers[i]
                  /\ Val(output).RawData[i].ticker = tickers[i]
                  /\ tickers[i] \notin DOMAIN cik_mapping =>
                       /\ Val(output).Summary[i].Notes = UnknownNote
                       /\ Val(output).Summary[i].CIK = None
                       /\ Val(output).Summary[i].QuarterlyRevenue = None
                       /\ Val(output).Summary[i].GrossMarginPct = None

(* The run over [AAPL, NOTAREALTICKER] with AAPL in the table has ended    *)
(* with 2 Summary rows, the second one carrying the note.                  *)
C6_Witness ==
    /\ script = "edgar" /\ pc = "done"
    /\ tickers = <<"AAPL", "NOTAREALTICKER">>
    /\ "AAPL" \in DOMAIN cik_mapping
    /\ Len(Val(output).Summary) = 2
    /\ Val(output).Summary[2].Notes = UnknownNote
    /\ FactsRequestCount = 1

(* C7 as stated: no exception leaves the per-ticker step, and a ticker     *)
(* whose fetch or extraction failed has a result with a non-empty note, is *)
(* not counted as a success, has its note in its Notes cell and in the     *)
(* console list, and the tickers after it are still processed.             *)
C7_PerTickerFailureIsNote ==
    /\ traceback = None
    /\ \A i \in 1..Len(responses) :
         TickerFailed(i) =>
             /\ i <= Len(results)
             /\ TruthyStr(results[i].error)
             /\ ~Success(results[i])
             /\ <<tickers[i], Val(results[i].error)>> \in Range(errors)
             /\ pc = "done" =>
                  /\ Val(output).Summary[i].Notes = Val(results[i].error)
                  /\ <<tickers[i], Val(results[i].error)>> \in Range(Val(console).errors)
                  /\ Len(results) = Len(tickers)

(* C8 as stated: the workbook is written at most once and only after every *)
(* ticker was processed; a run ends with a nonzero status only because the *)
(* input file or the CIK table could not be read, before any per-ticker    *)
(* request and with nothing written; per-ticker errors neither change the  *)
(* exit status nor prevent the write.                                      *)
C8_WriteOnceFatalOnlyBeforeLoop ==
    /\ Cardinality(WriteAt) <= 1
    /\ output # None <=> WriteAt # {}
    /\ \A w \in WriteAt :
         /\ Len(results) = Len(tickers)
         /\ \A k \in RequestAt : k < w
         /\ SleepCount = Len(tickers)
    /\ pc = "done" => (exit_status = Some(0) /\ output # None)
    /\ exit_status = Some(1) =>
         /\ RequestAt = {}
         /\ responses = <<>>
         /\ output = None

(* C9 as stated: the 'Gross Margin (%)' cell of the Summary sheet holds    *)
(* the margin rounded to 2 places for every ticker with a margin, 0        *)
(* included, and is empty only when the margin is absent.                  *)
C9_MarginCellRounded ==
    pc = "done" =>
        \A i \in Processed :
            Val(output).Summary[i].GrossMarginPct =
                IF results[i].gross_margin = None THEN None
                ELSE Some(Round2(Val(results[i].gross_margin)))

===========================================================================
